---- MODULE Spec2Model ----
(***************************************************************************)
(* Synchronous replication by two-phase commit with a quorum.              *)
(*                                                                         *)
(* ReplicationCoordinator (git-replication-mvp/src/replication.ts) runs on *)
(* the node that received a write; ReplicationHandler                      *)
(* (git-replication-mvp/src/replication-handler.ts, the version with       *)
(* storage, lines 119-254) runs on every peer.  One behaviour of Spec is   *)
(* one coordinator, constructed with some peer list, making one            *)
(* replicateWrite call against its peers.  A call to a peer either runs to  *)
(* its end (request handled, answer received) or fails at the coordinator  *)
(* (timeout, connection error, lost answer); the request of a failed call  *)
(* may still reach the peer later, or never.                               *)
(*                                                                         *)
(* SpecMock is the same coordinator with axios mocked as in                *)
(* replication.test.ts: every post resolves or rejects and no peer runs.   *)
(*                                                                         *)
(* Peer endpoints are pairwise distinct: peer i of peerUrls is node i.     *)
(* The timestamp of a transaction record (a clock reading) is left out.    *)
(***************************************************************************)
EXTENDS Integers, Sequences, FiniteSets, TLC

\* Largest number of configured peers (cluster size N = 1 + peers) in Spec.
MaxPeers == 5

\* Largest number of configured peers in SpecMock.
MaxMockPeers == 6

\* The coordinator's own server id (constructor argument).
ServerId == "server-1"

\* A field that is absent from a request body (falsy in the handlers' checks).
Missing == ""

\* The write payloads handed to replicateWrite: what GitServer.handleCreateRepo
\* passes for the repository it has just created locally.
WriteDatas ==
  { [repo_id |-> r, ref |-> "refs/heads/main", commit |-> "initial",
     operation |-> "create"] : r \in {"alice/proj"} }

VARIABLES
  peerUrls,        \* ReplicationCoordinator.peerUrls: <<1, .., n>>
  pc,              \* position of the replicateWrite call
  uuids,           \* number of identifiers uuidv4 has produced
  transactionId,   \* replicateWrite: const transactionId
  quorumSize,      \* replicateWrite: const quorumSize
  writeData,       \* replicateWrite: the argument
  prepareResults,  \* state of each sendPrepare promise, by peer index
  commitResults,   \* state of each sendCommit promise, by peer index
  requests,        \* HTTP requests sent and not yet handled by the peer
  transactions,    \* per node: ReplicationHandler.transactions (id -> record)
  storage,         \* per node: the repositories RepoStorage holds
  result,          \* what replicateWrite returned (NoResult before that)
  sent,            \* every axios.post call made so far, in call order
  localStorage,    \* GitServer.storage: the repositories of the local node
  serverPc,        \* position of GitServer.handleCreateRepo
  httpResponses,   \* the requests GitServer answered, with its answers
  reply,           \* the last request a handler under test served, with its answer
  served,          \* number of requests the handler under test has served
  other,           \* a second replicateWrite call under way: its local state
  suspended        \* handlePrepare calls of the handler under test at an await

vars == <<peerUrls, pc, uuids, transactionId, quorumSize, writeData,
          prepareResults, commitResults, requests, transactions,
          storage, result, sent, localStorage, serverPc, httpResponses,
          reply, served, other, suspended>>

\* The variables of GitServer and those of the handler under test.
serverVars == <<localStorage, serverPc, httpResponses>>
handlerVars == <<reply, served>>

\* The variables of concurrent calls: a second replicateWrite call and the
\* handlePrepare calls waiting for the storage.
concurrencyVars == <<other, suspended>>

Peers == 1..Len(peerUrls)

\* No request served yet by the handler under test.
NoReply == [op |-> "none"]

NoResult == [success |-> FALSE, peersConfirmed |-> -1, peersRequired |-> -1,
             error |-> <<"none">>]

\* The locals of a replicateWrite call as one record.
Call(cpc, txid, quorum, data, prepares, commits, res) ==
  [pc |-> cpc, transactionId |-> txid, quorumSize |-> quorum,
   writeData |-> data, prepareResults |-> prepares,
   commitResults |-> commits, result |-> res]

----------------------------------------------------------------------------
\* Math.ceil(a / b) for positive integers, as the floating point code yields it.
MathCeilDiv(a, b) == IF a % b = 0 THEN a \div b ELSE (a \div b) + 1

\* getQuorumSize without the 2-server special case.
getQuorumSizeNoSpecialCase(urls) ==
  LET totalServers == 1 + Len(urls)
  IN  MathCeilDiv(totalServers, 2) - 1

\* A quorum that is a strict majority of the cluster, the coordinator included.
getQuorumSizeMajority(urls) == ((1 + Len(urls)) \div 2) + 1

\* ReplicationCoordinator.getQuorumSize
getQuorumSize(urls) ==
  LET totalServers == 1 + Len(urls)
  IN  IF totalServers = 2 THEN 1 ELSE MathCeilDiv(totalServers, 2) - 1

\* A generator that hands out again the identifier it produced last.
uuidv4Repeats == IF uuids = 0 THEN uuids + 1 ELSE uuids

\* uuidv4(): a fresh identifier, never one produced before.
uuidv4 == uuids + 1

----------------------------------------------------------------------------
\* Map helpers for ReplicationHandler.transactions (a JavaScript Map).
MapHas(m, k) == k \in DOMAIN m

\* A set that drops every other key.
MapSetOnly(m, k, v) == [x \in {k} |-> v]

MapSet(m, k, v) == [x \in (DOMAIN m) \cup {k} |-> IF x = k THEN v ELSE m[x]]

EmptyMap == [x \in {} |-> 0]

\* Transaction ids are numbers here; 0 stands for an absent transaction_id.
MissingId == 0

\* !transaction_id of the handlers' validation.
FalsyId(x) == x = MissingId

\* A validation that lets every string pass.
FalsyNever(x) == FALSE

\* !coordinator_id, !repo_id of the handlers' validation.
Falsy(x) == x = Missing

\* A repoExists that finds nothing.
repoExistsNever(repos, repoId) == FALSE

\* RepoStorage.repoExists
repoExists(repos, repoId) == repoId \in repos

\* A createRepo that reports success without making the repository.
createRepoNoop(repos, repoId, fsFails) ==
  IF repoExists(repos, repoId) \/ fsFails
  THEN [threw |-> TRUE, storage |-> repos]
  ELSE [threw |-> FALSE, storage |-> repos]

\* RepoStorage.createRepo: throws when the repository exists already or when
\* the file system fails (fsFails); otherwise the repository is there.
createRepo(repos, repoId, fsFails) ==
  IF repoExists(repos, repoId) \/ fsFails
  THEN [threw |-> TRUE, storage |-> repos]
  ELSE [threw |-> FALSE, storage |-> repos \cup {repoId}]

\* The answer of a handler: res.status(code).json(json), with the table and
\* the storage it leaves and whether it called createRepo.
Answer(txs, repos, code, json, called) ==
  [transactions |-> txs, storage |-> repos, code |-> code, json |-> json,
   createRepoCalled |-> called]

\* The 200 body of the three handlers.
Accepted(status, body, serverId) ==
  [status |-> status, transaction_id |-> body.transaction_id,
   server_id |-> serverId]

\* The record handlePrepare stores.
PreparedRecord(body) ==
  [transaction_id |-> body.transaction_id,
   coordinator_id |-> body.coordinator_id,
   repo_id |-> body.repo_id, ref |-> body.ref,
   commit |-> body.commit, operation |-> body.operation,
   status |-> "prepared"]

\* handlePrepare of the first version of the handler: no storage operation.
handlePrepareNoStorage(serverId, txs, repos, body, storageFails) ==
  IF FalsyId(body.transaction_id) \/ Falsy(body.coordinator_id) \/ Falsy(body.repo_id)
  THEN Answer(txs, repos, 400, [error |-> "Missing required fields"], FALSE)
  ELSE Answer(MapSet(txs, body.transaction_id, PreparedRecord(body)), repos,
              200, Accepted("prepared", body, serverId), FALSE)

\* handlePrepare calling createRepo without the existence check.
handlePrepareAlwaysCreates(serverId, txs, repos, body, storageFails) ==
  IF FalsyId(body.transaction_id) \/ Falsy(body.coordinator_id) \/ Falsy(body.repo_id)
  THEN Answer(txs, repos, 400, [error |-> "Missing required fields"], FALSE)
  ELSE LET created == IF body.operation = "create"
                      THEN createRepo(repos, body.repo_id, storageFails)
                      ELSE [threw |-> FALSE, storage |-> repos]
       IN  IF created.threw
           THEN Answer(txs, repos, 500, [error |-> "Prepare failed"], TRUE)
           ELSE Answer(MapSet(txs, body.transaction_id, PreparedRecord(body)),
                       created.storage, 200,
                       Accepted("prepared", body, serverId),
                       body.operation = "create")

\* handlePrepare that acknowledges although createRepo threw.
handlePrepareSwallowsError(serverId, txs, repos, body, storageFails) ==
  IF FalsyId(body.transaction_id) \/ Falsy(body.coordinator_id) \/ Falsy(body.repo_id)
  THEN Answer(txs, repos, 400, [error |-> "Missing required fields"], FALSE)
  ELSE LET calls == body.operation = "create" /\ ~repoExists(repos, body.repo_id)
           created == IF calls THEN createRepo(repos, body.repo_id, storageFails)
                      ELSE [threw |-> FALSE, storage |-> repos]
       IN  Answer(MapSet(txs, body.transaction_id, PreparedRecord(body)),
                  created.storage, 200,
                  Accepted("prepared", body, serverId), calls)

\* handlePrepare that refuses a repository another transaction has prepared.
handlePrepareExclusive(serverId, txs, repos, body, storageFails) ==
  IF FalsyId(body.transaction_id) \/ Falsy(body.coordinator_id) \/ Falsy(body.repo_id)
  THEN Answer(txs, repos, 400, [error |-> "Missing required fields"], FALSE)
  ELSE IF \E id \in DOMAIN txs : /\ id # body.transaction_id
                                 /\ txs[id].repo_id = body.repo_id
                                 /\ txs[id].status = "prepared"
  THEN Answer(txs, repos, 500, [error |-> "Prepare failed"], FALSE)
  ELSE LET calls == body.operation = "create" /\ ~repoExists(repos, body.repo_id)
           created == IF calls THEN createRepo(repos, body.repo_id, storageFails)
                      ELSE [threw |-> FALSE, storage |-> repos]
       IN  IF created.threw
           THEN Answer(txs, repos, 500, [error |-> "Prepare failed"], calls)
           ELSE Answer(MapSet(txs, body.transaction_id, PreparedRecord(body)),
                       created.storage, 200,
                       Accepted("prepared", body, serverId), calls)

\* handlePrepare that acknowledges without storing the record.
handlePrepareNoRecord(serverId, txs, repos, body, storageFails) ==
  IF FalsyId(body.transaction_id) \/ Falsy(body.coordinator_id) \/ Falsy(body.repo_id)
  THEN Answer(txs, repos, 400, [error |-> "Missing required fields"], FALSE)
  ELSE LET calls == body.operation = "create" /\ ~repoExists(repos, body.repo_id)
           created == IF calls THEN createRepo(repos, body.repo_id, storageFails)
                      ELSE [threw |-> FALSE, storage |-> repos]
       IN  IF created.threw
           THEN Answer(txs, repos, 500, [error |-> "Prepare failed"], calls)
           ELSE Answer(txs, created.storage, 200,
                       Accepted("prepared", body, serverId), calls)

\* ReplicationHandler.handlePrepare on the node serverId whose table is txs and
\* whose storage holds repos; storageFails says whether the file system fails
\* in createRepo.
handlePrepare(serverId, txs, repos, body, storageFails) ==
  IF FalsyId(body.transaction_id) \/ Falsy(body.coordinator_id) \/ Falsy(body.repo_id)
  THEN Answer(txs, repos, 400, [error |-> "Missing required fields"], FALSE)
  ELSE LET calls == body.operation = "create" /\ ~repoExists(repos, body.repo_id)
           created == IF calls THEN createRepo(repos, body.repo_id, storageFails)
                      ELSE [threw |-> FALSE, storage |-> repos]
       IN  IF created.threw
           THEN Answer(txs, repos, 500, [error |-> "Prepare failed"], calls)
           ELSE Answer(MapSet(txs, body.transaction_id, PreparedRecord(body)),
                       created.storage, 200,
                       Accepted("prepared", body, serverId), calls)

\* handleCommit that stores a record for an id it has never seen.
handleCommitUpsert(serverId, txs, repos, body) ==
  IF FalsyId(body.transaction_id) \/ Falsy(body.coordinator_id)
  THEN Answer(txs, repos, 400, [error |-> "Missing required fields"], FALSE)
  ELSE Answer(MapSet(txs, body.transaction_id,
                     IF MapHas(txs, body.transaction_id)
                     THEN [txs[body.transaction_id] EXCEPT !.status = "committed"]
                     ELSE [transaction_id |-> body.transaction_id,
                           coordinator_id |-> body.coordinator_id,
                           status |-> "committed"]),
              repos, 200, Accepted("committed", body, serverId), FALSE)

\* ReplicationHandler.handleCommit
handleCommit(serverId, txs, repos, body) ==
  IF FalsyId(body.transaction_id) \/ Falsy(body.coordinator_id)
  THEN Answer(txs, repos, 400, [error |-> "Missing required fields"], FALSE)
  ELSE IF ~MapHas(txs, body.transaction_id)
  THEN Answer(txs, repos, 404, [error |-> "Transaction not found"], FALSE)
  ELSE Answer(MapSet(txs, body.transaction_id,
                     [txs[body.transaction_id] EXCEPT !.status = "committed"]),
              repos, 200, Accepted("committed", body, serverId), FALSE)

\* handleAbort that refuses an id it has never seen, as handleCommit does.
handleAbortStrict(serverId, txs, repos, body) ==
  IF FalsyId(body.transaction_id) \/ Falsy(body.coordinator_id)
  THEN Answer(txs, repos, 400, [error |-> "Missing required fields"], FALSE)
  ELSE IF ~MapHas(txs, body.transaction_id)
  THEN Answer(txs, repos, 404, [error |-> "Transaction not found"], FALSE)
  ELSE Answer(MapSet(txs, body.transaction_id,
                     [txs[body.transaction_id] EXCEPT !.status = "aborted"]),
              repos, 200, Accepted("aborted", body, serverId), FALSE)

\* handleAbort that deletes the record it aborts.
handleAbortDeletes(serverId, txs, repos, body) ==
  IF FalsyId(body.transaction_id) \/ Falsy(body.coordinator_id)
  THEN Answer(txs, repos, 400, [error |-> "Missing required fields"], FALSE)
  ELSE Answer([x \in (DOMAIN txs) \ {body.transaction_id} |-> txs[x]],
              repos, 200, Accepted("aborted", body, serverId), FALSE)

\* handleAbort that undoes the storage mutation of the prepare.
handleAbortCompensates(serverId, txs, repos, body) ==
  IF FalsyId(body.transaction_id) \/ Falsy(body.coordinator_id)
  THEN Answer(txs, repos, 400, [error |-> "Missing required fields"], FALSE)
  ELSE IF MapHas(txs, body.transaction_id)
  THEN Answer(MapSet(txs, body.transaction_id,
                     [txs[body.transaction_id] EXCEPT !.status = "aborted"]),
              repos \ {txs[body.transaction_id].repo_id},
              200, Accepted("aborted", body, serverId), FALSE)
  ELSE Answer(txs, repos, 200, Accepted("aborted", body, serverId), FALSE)

\* ReplicationHandler.handleAbort
handleAbort(serverId, txs, repos, body) ==
  IF FalsyId(body.transaction_id) \/ Falsy(body.coordinator_id)
  THEN Answer(txs, repos, 400, [error |-> "Missing required fields"], FALSE)
  ELSE Answer(IF MapHas(txs, body.transaction_id)
              THEN MapSet(txs, body.transaction_id,
                          [txs[body.transaction_id] EXCEPT !.status = "aborted"])
              ELSE txs,
              repos, 200, Accepted("aborted", body, serverId), FALSE)

\* The server id of peer p (SERVER_ID of its process).
PeerServerId(p) == <<"server", p + 1>>

----------------------------------------------------------------------------
\* The body sendPrepare posts to `${peerUrl}/replicate/prepare`.
PrepareBody(txid, data) ==
  [transaction_id |-> txid, coordinator_id |-> ServerId,
   repo_id |-> data.repo_id, ref |-> data.ref, commit |-> data.commit,
   operation |-> data.operation]

\* The body sendCommit posts to `${peerUrl}/replicate/commit`.
CommitBody(txid) == [transaction_id |-> txid, coordinator_id |-> ServerId]

\* One axios.post call: the endpoint, the peer and the body.
Post(kind, p, body) == [kind |-> kind, peer |-> p, body |-> body]

\* The posts of a fan-out over the peers in ps, in peerUrls order.
RECURSIVE FanOut(_, _, _, _)
FanOut(kind, urls, ps, body) ==
  IF urls = <<>> THEN <<>>
  ELSE (IF Head(urls) \in ps THEN <<Post(kind, Head(urls), body)>> ELSE <<>>)
       \o FanOut(kind, Tail(urls), ps, body)

SeqRange(s) == { s[i] : i \in DOMAIN s }

\* Promise.all over the same promises: rejects as soon as one of them rejects.
PromiseAll(ps) ==
  [settled |-> (\E i \in DOMAIN ps : ps[i] = "rejected")
               \/ (\A i \in DOMAIN ps : ps[i] = "fulfilled"),
   rejected |-> \E i \in DOMAIN ps : ps[i] = "rejected"]

\* Promise.race-like join: resolves as soon as any promise has settled.
PromiseAnySettled(ps) ==
  [settled |-> (DOMAIN ps = {}) \/ (\E i \in DOMAIN ps : ps[i] # "pending"),
   rejected |-> FALSE]

\* Promise.allSettled(promises): resolves once every promise has settled and
\* never rejects.
PromiseAllSettled(ps) ==
  [settled |-> \A i \in DOMAIN ps : ps[i] # "pending", rejected |-> FALSE]

\* prepareResults.filter(result => result.status === 'fulfilled')
successfulPrepares == { p \in DOMAIN prepareResults : prepareResults[p] = "fulfilled" }

\* No quorum check at all.
QuorumNotReachedNever == FALSE

\* A quorum check that asks for one confirmation more than the quorum.
QuorumNotReachedStrict == Cardinality(successfulPrepares) <= quorumSize

\* A quorum check that is off by one.
QuorumNotReachedOffByOne == Cardinality(successfulPrepares) < quorumSize - 1

\* if (successfulPrepares.length < quorumSize)
QuorumNotReached == Cardinality(successfulPrepares) < quorumSize

\* A commit fan-out to every configured peer.
peersToCommitAll == SeqRange(peerUrls)

\* peerUrls.filter((_, index) => prepareResults[index].status === 'fulfilled')
peersToCommit == { p \in SeqRange(peerUrls) : prepareResults[p] = "fulfilled" }

\* The template literal of the failure result, piece by piece.
QuorumError(required, got) ==
  <<"Quorum not reached. Required: ", required, ", Got: ", got>>

\* A failure result without the error text.
FailureResultNoError ==
  [success |-> FALSE, peersConfirmed |-> Cardinality(successfulPrepares),
   peersRequired |-> quorumSize, error |-> <<>>]

\* return { success: false, ... }
FailureResult ==
  [success |-> FALSE, peersConfirmed |-> Cardinality(successfulPrepares),
   peersRequired |-> quorumSize,
   error |-> QuorumError(quorumSize, Cardinality(successfulPrepares))]

\* A success result that reports the required count as the confirmed count.
SuccessResultQuorumCount ==
  [success |-> TRUE, peersConfirmed |-> quorumSize,
   peersRequired |-> quorumSize, error |-> <<>>]

\* A success result that looks at the commit outcomes.
SuccessResultCommitAware ==
  [success |-> \A p \in DOMAIN commitResults : commitResults[p] # "rejected",
   peersConfirmed |-> Cardinality({ p \in DOMAIN commitResults :
                                      commitResults[p] = "fulfilled" }),
   peersRequired |-> quorumSize, error |-> <<>>]

\* return { success: true, ... }; error is absent (the empty sequence here).
SuccessResult ==
  [success |-> TRUE, peersConfirmed |-> Cardinality(successfulPrepares),
   peersRequired |-> quorumSize, error |-> <<>>]

----------------------------------------------------------------------------
\* A coordinator constructed with n peers, and the n peers as started.
Constructed(n) ==
  /\ peerUrls = [i \in 1..n |-> i]
  /\ pc = "idle"
  /\ uuids = 0
  /\ transactionId = MissingId
  /\ quorumSize = 0
  /\ writeData \in WriteDatas
  /\ prepareResults = <<>>
  /\ commitResults = <<>>
  /\ requests = {}
  /\ transactions = [p \in 1..n |-> EmptyMap]
  /\ storage = [p \in 1..n |-> {}]
  /\ result = NoResult
  /\ sent = <<>>
  /\ localStorage = {}
  /\ serverPc = "ready"
  /\ httpResponses = <<>>
  /\ reply = NoReply
  /\ served = 0
  /\ other = Call("idle", MissingId, 0, writeData, <<>>, <<>>, NoResult)
  /\ suspended = <<>>

Init == \E n \in 0..MaxPeers : Constructed(n)

\* replicateWrite, lines 42-48: the id, the quorum and the prepare fan-out.
ReplicateWriteCall(data) ==
  /\ pc = "idle"
  /\ LET txid == uuidv4
         posts == FanOut("prepare", peerUrls, SeqRange(peerUrls),
                         PrepareBody(txid, data))
     IN  /\ transactionId' = txid
         /\ uuids' = uuids + 1
         /\ quorumSize' = getQuorumSize(peerUrls)
         /\ prepareResults' = [p \in Peers |-> "pending"]
         /\ requests' = requests \cup SeqRange(posts)
         /\ sent' = sent \o posts
  /\ pc' = "prepare"
  /\ writeData' = data
  /\ UNCHANGED <<peerUrls, commitResults, transactions, storage, result>>

\* A direct call of replicateWrite with the payload at hand.
ReplicateWrite ==
  /\ ReplicateWriteCall(writeData)
  /\ UNCHANGED <<serverVars, handlerVars, concurrencyVars>>

\* One prepare call runs to its end: the peer's express route runs
\* handlePrepare on the request and the answer settles the sendPrepare promise
\* (2xx fulfils it, anything else rejects it).  When the call has already
\* failed at the coordinator, the peer still handles the late request and the
\* answer goes nowhere.
PeerPrepare(p, storageFails) ==
  /\ \E r \in requests :
       /\ r.kind = "prepare" /\ r.peer = p
       /\ r.body.transaction_id = transactionId
       /\ LET h == handlePrepare(PeerServerId(p), transactions[p], storage[p],
                                 r.body, storageFails)
          IN  /\ transactions' = [transactions EXCEPT ![p] = h.transactions]
              /\ storage' = [storage EXCEPT ![p] = h.storage]
              /\ prepareResults' =
                   IF prepareResults[p] = "pending"
                   THEN [prepareResults EXCEPT ![p] =
                           IF h.code = 200 THEN "fulfilled" ELSE "rejected"]
                   ELSE prepareResults
       /\ requests' = requests \ {r}
  /\ UNCHANGED <<serverVars, handlerVars, concurrencyVars>>
  /\ UNCHANGED <<peerUrls, pc, uuids, transactionId, quorumSize, writeData,
                 commitResults, result, sent>>

\* A sendPrepare without a timeout: it settles only when the peer answers.
PrepareTimeoutNever(p) ==
  /\ FALSE
  /\ UNCHANGED vars

\* A timeout after which the prepare is posted again.
PrepareTimeoutRetries(p) ==
  /\ pc = "prepare"
  /\ prepareResults[p] = "pending"
  /\ sent' = Append(sent, Post("prepare", p, PrepareBody(transactionId, writeData)))
  /\ UNCHANGED <<serverVars, handlerVars, concurrencyVars>>
  /\ UNCHANGED <<peerUrls, pc, uuids, transactionId, quorumSize, writeData,
                 prepareResults, commitResults, requests, transactions,
                 storage, result>>

\* sendPrepare's axios.post fails: the 5 s timeout, a connection error or a
\* lost answer.  The request stays under way: it may reach the peer later, or
\* never.
PrepareTimeout(p) ==
  /\ pc = "prepare"
  /\ prepareResults[p] = "pending"
  /\ prepareResults' = [prepareResults EXCEPT ![p] = "rejected"]
  /\ UNCHANGED <<serverVars, handlerVars, concurrencyVars>>
  /\ UNCHANGED <<peerUrls, pc, uuids, transactionId, quorumSize, writeData,
                 commitResults, requests, transactions, storage, result, sent>>

\* replicateWrite, lines 50-73: the join on the prepares, the quorum check and
\* either the failure return or the commit fan-out.
QuorumCheck ==
  /\ pc = "prepare"
  /\ PromiseAllSettled(prepareResults).settled
  /\ IF PromiseAllSettled(prepareResults).rejected
     THEN /\ pc' = "threw"
          /\ UNCHANGED <<commitResults, requests, result, sent>>
     ELSE IF QuorumNotReached
     THEN /\ result' = FailureResult
          /\ pc' = "done"
          /\ UNCHANGED <<commitResults, requests, sent>>
     ELSE LET posts == FanOut("commit", peerUrls, peersToCommit,
                              CommitBody(transactionId))
          IN  /\ commitResults' = [p \in peersToCommit |-> "pending"]
              /\ requests' = requests \cup SeqRange(posts)
              /\ sent' = sent \o posts
              /\ pc' = "commit"
              /\ UNCHANGED result
  /\ UNCHANGED <<serverVars, handlerVars, concurrencyVars>>
  /\ UNCHANGED <<peerUrls, uuids, transactionId, quorumSize, writeData,
                 prepareResults, transactions, storage>>

\* One commit call runs to its end: the peer's express route runs handleCommit
\* and the answer settles the sendCommit promise; a late request is handled
\* all the same.
PeerCommit(p) ==
  /\ \E r \in requests :
       /\ r.kind = "commit" /\ r.peer = p
       /\ r.body.transaction_id = transactionId
       /\ LET h == handleCommit(PeerServerId(p), transactions[p], storage[p], r.body)
          IN  /\ transactions' = [transactions EXCEPT ![p] = h.transactions]
              /\ storage' = [storage EXCEPT ![p] = h.storage]
              /\ commitResults' =
                   IF commitResults[p] = "pending"
                   THEN [commitResults EXCEPT ![p] =
                           IF h.code = 200 THEN "fulfilled" ELSE "rejected"]
                   ELSE commitResults
       /\ requests' = requests \ {r}
  /\ UNCHANGED <<serverVars, handlerVars, concurrencyVars>>
  /\ UNCHANGED <<peerUrls, pc, uuids, transactionId, quorumSize, writeData,
                 prepareResults, result, sent>>

\* sendCommit's axios.post fails: timeout, connection error or lost answer.
CommitTimeout(p) ==
  /\ pc = "commit"
  /\ p \in DOMAIN commitResults
  /\ commitResults[p] = "pending"
  /\ commitResults' = [commitResults EXCEPT ![p] = "rejected"]
  /\ UNCHANGED <<serverVars, handlerVars, concurrencyVars>>
  /\ UNCHANGED <<peerUrls, pc, uuids, transactionId, quorumSize, writeData,
                 prepareResults, requests, transactions, storage, result, sent>>

\* replicateWrite, lines 75-81: the join on the commits and the success return.
ReturnSuccess ==
  /\ pc = "commit"
  /\ PromiseAllSettled(commitResults).settled
  /\ IF PromiseAllSettled(commitResults).rejected
     THEN pc' = "threw" /\ UNCHANGED result
     ELSE pc' = "done" /\ result' = SuccessResult
  /\ UNCHANGED <<serverVars, handlerVars, concurrencyVars>>
  /\ UNCHANGED <<peerUrls, uuids, transactionId, quorumSize, writeData,
                 prepareResults, commitResults, requests,
                 transactions, storage, sent>>

Next ==
  \/ ReplicateWrite
  \/ \E p \in Peers : \E f \in BOOLEAN : PeerPrepare(p, f)
  \/ \E p \in Peers : PrepareTimeout(p)
  \/ QuorumCheck
  \/ \E p \in Peers : PeerCommit(p)
  \/ \E p \in Peers : CommitTimeout(p)
  \/ ReturnSuccess

Spec == Init /\ [][Next]_vars

----------------------------------------------------------------------------
\* The replicateWrite call with the progress its code is sure of: axios fails
\* a post that has not been answered within `timeout` (5 s), and the code
\* after an await runs once what it awaits has settled.  Nothing is assumed of
\* the peers: they may answer late or never.

\* Largest number of peers where progress is checked.
MaxLivePeers == 3

InitLive == \E n \in 0..MaxLivePeers : Constructed(n)

\* { timeout: this.timeout } in sendPrepare and sendCommit, and the
\* continuations of the two awaits of replicateWrite.
Progress ==
  /\ WF_vars(\E p \in Peers : PrepareTimeout(p))
  /\ WF_vars(\E p \in Peers : CommitTimeout(p))
  /\ WF_vars(QuorumCheck)
  /\ WF_vars(ReturnSuccess)

SpecLive == InitLive /\ [][Next]_vars /\ Progress

\* Every post the coordinator made reaches its peer and is handled there,
\* whether or not the coordinator still waits for the answer.
Delivery ==
  /\ WF_vars(\E p \in Peers : \E storageFails \in BOOLEAN :
                PeerPrepare(p, storageFails))
  /\ WF_vars(\E p \in Peers : PeerCommit(p))

SpecDelivered == SpecLive /\ Delivery

----------------------------------------------------------------------------
\* The coordinator's unit tests: jest.mock('axios').

InitMock == \E n \in 0..MaxMockPeers : Constructed(n)

\* mockedAxios.post settles a prepare post: mockResolvedValue fulfils the
\* sendPrepare promise, mockRejectedValue rejects it.
MockPrepare(p, resolves) ==
  /\ pc = "prepare"
  /\ prepareResults[p] = "pending"
  /\ prepareResults' = [prepareResults EXCEPT ![p] =
                          IF resolves THEN "fulfilled" ELSE "rejected"]
  /\ requests' = { r \in requests : ~(r.kind = "prepare" /\ r.peer = p) }
  /\ UNCHANGED <<serverVars, handlerVars, concurrencyVars>>
  /\ UNCHANGED <<peerUrls, pc, uuids, transactionId, quorumSize, writeData,
                 commitResults, transactions, storage, result, sent>>

\* mockedAxios.post settles a commit post.
MockCommit(p, resolves) ==
  /\ pc = "commit"
  /\ p \in DOMAIN commitResults
  /\ commitResults[p] = "pending"
  /\ commitResults' = [commitResults EXCEPT ![p] =
                         IF resolves THEN "fulfilled" ELSE "rejected"]
  /\ requests' = { r \in requests : ~(r.kind = "commit" /\ r.peer = p) }
  /\ UNCHANGED <<serverVars, handlerVars, concurrencyVars>>
  /\ UNCHANGED <<peerUrls, pc, uuids, transactionId, quorumSize, writeData,
                 prepareResults, transactions, storage, result, sent>>

NextMock ==
  \/ ReplicateWrite
  \/ \E p \in Peers : \E ok \in BOOLEAN : MockPrepare(p, ok)
  \/ QuorumCheck
  \/ \E p \in Peers : \E ok \in BOOLEAN : MockCommit(p, ok)
  \/ ReturnSuccess

SpecMock == InitMock /\ [][NextMock]_vars

----------------------------------------------------------------------------
\* Two replicateWrite calls on the same coordinator, under way at the same
\* time.  The call the actions above work on is the one in focus; the other
\* one rests in `other` until the focus turns to it.

\* Largest number of peers of the coordinator with two calls under way.
MaxConcurrentPeers == 1

InitConcurrent == \E n \in 1..MaxConcurrentPeers : Constructed(n)

\* The event loop turns from one replicateWrite call to the other: nothing but
\* the focus changes.
SwitchCall ==
  /\ other' = Call(pc, transactionId, quorumSize, writeData, prepareResults,
                   commitResults, result)
  /\ pc' = other.pc
  /\ transactionId' = other.transactionId
  /\ quorumSize' = other.quorumSize
  /\ writeData' = other.writeData
  /\ prepareResults' = other.prepareResults
  /\ commitResults' = other.commitResults
  /\ result' = other.result
  /\ UNCHANGED <<peerUrls, uuids, requests, transactions, storage, sent,
                 serverVars, handlerVars, suspended>>

NextConcurrent ==
  \/ SwitchCall
  \/ ReplicateWrite
  \/ \E p \in Peers : \E f \in BOOLEAN : PeerPrepare(p, f)
  \/ \E p \in Peers : PrepareTimeout(p)
  \/ QuorumCheck
  \/ \E p \in Peers : PeerCommit(p)
  \/ \E p \in Peers : CommitTimeout(p)
  \/ ReturnSuccess

SpecConcurrent == InitConcurrent /\ [][NextConcurrent]_vars

----------------------------------------------------------------------------
\* One node's ReplicationHandler serving whatever prepare, commit and abort
\* requests arrive, one after the other, from any sender.

\* Largest number of requests the handler under test serves.
MaxRequests == 4

\* The node whose handler is under test.
HandlerNode == 1

\* The transaction ids the requests carry.
HandlerTxIds == {1, 2}

\* The bodies of POST /replicate/prepare, fields present or absent.
PrepareBodies ==
  [transaction_id : {MissingId} \cup HandlerTxIds,
   coordinator_id : {Missing, ServerId},
   repo_id : {Missing, "alice/proj"},
   ref : {"refs/heads/main"},
   commit : {"initial"},
   operation : {"create", "update"}]

\* The bodies of POST /replicate/commit and POST /replicate/abort.
PhaseTwoBodies ==
  [transaction_id : {MissingId} \cup HandlerTxIds,
   coordinator_id : {Missing, ServerId}]

InitHandler == Constructed(HandlerNode)

\* What the handler under test is left with after answering h to a request.
Served(op, body, h) ==
  /\ served < MaxRequests
  /\ transactions' = [transactions EXCEPT ![HandlerNode] = h.transactions]
  /\ storage' = [storage EXCEPT ![HandlerNode] = h.storage]
  /\ reply' = [op |-> op, body |-> body, code |-> h.code, json |-> h.json,
               createRepoCalled |-> h.createRepoCalled]
  /\ served' = served + 1
  /\ UNCHANGED <<peerUrls, pc, uuids, transactionId, quorumSize, writeData,
                 prepareResults, commitResults, requests, result, sent,
                 serverVars, concurrencyVars>>

\* app.post('/replicate/prepare', ...)
ServePrepare(body, storageFails) ==
  Served("prepare", body,
         handlePrepare(PeerServerId(HandlerNode), transactions[HandlerNode],
                       storage[HandlerNode], body, storageFails))

\* app.post('/replicate/commit', ...)
ServeCommit(body) ==
  Served("commit", body,
         handleCommit(PeerServerId(HandlerNode), transactions[HandlerNode],
                      storage[HandlerNode], body))

\* app.post('/replicate/abort', ...)
ServeAbort(body) ==
  Served("abort", body,
         handleAbort(PeerServerId(HandlerNode), transactions[HandlerNode],
                     storage[HandlerNode], body))

NextHandler ==
  \/ \E body \in PrepareBodies : \E f \in BOOLEAN : ServePrepare(body, f)
  \/ \E body \in PhaseTwoBodies : ServeCommit(body)
  \/ \E body \in PhaseTwoBodies : ServeAbort(body)

SpecHandler == InitHandler /\ [][NextHandler]_vars

----------------------------------------------------------------------------
\* One node's ReplicationHandler with its requests interleaved as the event
\* loop interleaves them: handlePrepare gives way at `await repoExists` and at
\* `await createRepo`, handleCommit and handleAbort run to their end at once.

\* Largest number of requests the interleaved handler answers.
MaxInterleaved == 3

\* Largest number of handlePrepare calls suspended at the same time.
MaxSuspended == 1

\* The server id of a second coordinator.
OtherCoordinatorId == "server-2"

\* Prepare bodies of two coordinators.
InterleavedPrepareBodies ==
  [transaction_id : {MissingId} \cup HandlerTxIds,
   coordinator_id : {ServerId, OtherCoordinatorId},
   repo_id : {"alice/proj"},
   ref : {"refs/heads/main"},
   commit : {"initial"},
   operation : {"create", "update"}]

\* Commit and abort bodies of two coordinators.
InterleavedPhaseTwoBodies ==
  [transaction_id : HandlerTxIds, coordinator_id : {ServerId, OtherCoordinatorId}]

InitInterleaved == Constructed(HandlerNode)

\* s without its i-th element.
RemoveAt(s, i) == SubSeq(s, 1, i - 1) \o SubSeq(s, i + 1, Len(s))

\* res.status(code).json(json) of the handler under test.
Replies(op, body, code, json, called) ==
  /\ reply' = [op |-> op, body |-> body, code |-> code, json |-> json,
               createRepoCalled |-> called]
  /\ served' = served + 1

\* What no step of the interleaved handler touches.
HandlerFrame ==
  UNCHANGED <<peerUrls, pc, uuids, transactionId, quorumSize, writeData,
              prepareResults, commitResults, requests, result, sent,
              serverVars, other>>

\* handlePrepare from its start to its first await, or to its end when there
\* is none: the validation, then for 'create' the call of repoExists, whose
\* answer decides whether createRepo is called.
BeginPrepare(body) ==
  /\ IF FalsyId(body.transaction_id) \/ Falsy(body.coordinator_id)
        \/ Falsy(body.repo_id)
     THEN /\ Replies("prepare", body, 400,
                     [error |-> "Missing required fields"], FALSE)
          /\ UNCHANGED <<transactions, storage, suspended>>
     ELSE IF body.operation = "create"
     THEN /\ suspended' =
               Append(suspended,
                      [body |-> body,
                       stage |-> IF repoExists(storage[HandlerNode], body.repo_id)
                                 THEN "record" ELSE "create"])
          /\ UNCHANGED <<transactions, storage, reply, served>>
     ELSE /\ transactions' =
               [transactions EXCEPT ![HandlerNode] =
                  MapSet(@, body.transaction_id, PreparedRecord(body))]
          /\ Replies("prepare", body, 200,
                     Accepted("prepared", body, PeerServerId(HandlerNode)),
                     FALSE)
          /\ UNCHANGED <<storage, suspended>>
  /\ HandlerFrame

\* A prepare request reaches the interleaved handler.
ArrivePrepare(body) ==
  /\ served < MaxInterleaved
  /\ Len(suspended) < MaxSuspended
  /\ BeginPrepare(body)

\* handlePrepare at `await this.storage.createRepo(repo_id)`: the repository
\* is made, or createRepo throws and the catch answers 500.
ResumeCreate(i, fsFails) ==
  /\ i \in DOMAIN suspended
  /\ suspended[i].stage = "create"
  /\ LET body == suspended[i].body
         created == createRepo(storage[HandlerNode], body.repo_id, fsFails)
     IN  IF created.threw
         THEN /\ Replies("prepare", body, 500, [error |-> "Prepare failed"],
                         TRUE)
              /\ suspended' = RemoveAt(suspended, i)
              /\ UNCHANGED <<transactions, storage>>
         ELSE /\ storage' = [storage EXCEPT ![HandlerNode] = created.storage]
              /\ suspended' = [suspended EXCEPT ![i].stage = "created"]
              /\ UNCHANGED <<transactions, reply, served>>
  /\ HandlerFrame

\* handlePrepare after its last await: the record is stored and the 200 sent.
ResumeRecord(i) ==
  /\ i \in DOMAIN suspended
  /\ suspended[i].stage \in {"record", "created"}
  /\ LET body == suspended[i].body
     IN  /\ transactions' =
              [transactions EXCEPT ![HandlerNode] =
                 MapSet(@, body.transaction_id, PreparedRecord(body))]
         /\ Replies("prepare", body, 200,
                    Accepted("prepared", body, PeerServerId(HandlerNode)),
                    suspended[i].stage = "created")
  /\ suspended' = RemoveAt(suspended, i)
  /\ UNCHANGED storage
  /\ HandlerFrame

\* ReplicationHandler.clearTransactions
ClearTransactions ==
  /\ served < MaxInterleaved
  /\ transactions' = [transactions EXCEPT ![HandlerNode] = EmptyMap]
  /\ reply' = [op |-> "clear"]
  /\ served' = served + 1
  /\ UNCHANGED <<storage, suspended>>
  /\ HandlerFrame

NextInterleaved ==
  \/ \E body \in InterleavedPrepareBodies : ArrivePrepare(body)
  \/ \E i \in 1..MaxSuspended : \E f \in BOOLEAN : ResumeCreate(i, f)
  \/ \E i \in 1..MaxSuspended : ResumeRecord(i)
  \/ \E body \in InterleavedPhaseTwoBodies :
       served < MaxInterleaved /\ ServeCommit(body)
  \/ \E body \in InterleavedPhaseTwoBodies :
       served < MaxInterleaved /\ ServeAbort(body)
  \/ ClearTransactions

SpecInterleaved == InitInterleaved /\ [][NextInterleaved]_vars

----------------------------------------------------------------------------
\* Prepare calls of different transactions for the same repository, operation
\* 'create', arriving at one node whose file system works.

\* Largest number of prepare calls that arrive.
MaxRacing == 3

\* The prepare of the k-th transaction, sent by the coordinator c.
RacingBody(k, c) ==
  [transaction_id |-> k, coordinator_id |-> c, repo_id |-> "alice/proj",
   ref |-> "refs/heads/main", commit |-> "initial", operation |-> "create"]

InitRace == Constructed(HandlerNode)

\* The next prepare arrives, under a transaction id of its own.
ArriveRacing(c) ==
  /\ served + Len(suspended) < MaxRacing
  /\ BeginPrepare(RacingBody(served + Len(suspended) + 1, c))

NextRace ==
  \/ \E c \in {ServerId, OtherCoordinatorId} : ArriveRacing(c)
  \/ \E i \in 1..MaxRacing : ResumeCreate(i, FALSE)
  \/ \E i \in 1..MaxRacing : ResumeRecord(i)

SpecRace == InitRace /\ [][NextRace]_vars

----------------------------------------------------------------------------
\* GitServer: POST /repos runs handleCreateRepo, which creates the repository
\* locally and then replicates the creation through the coordinator.

\* Largest number of peers of the server under test.
MaxServerPeers == 3

\* Largest number of POST /repos requests answered.
MaxClientRequests == 3

\* The bodies of POST /repos, repo_id present or absent.
CreateRequests == [repo_id : {Missing, "alice/proj"}]

\* The payload handleCreateRepo hands to replicateWrite.
CreateData(repoId) ==
  [repo_id |-> repoId, ref |-> "refs/heads/main", commit |-> "initial",
   operation |-> "create"]

\* GitServer's constructor: a coordinator only with at least one peer.
hasCoordinator == Len(peerUrls) > 0

\* res.status(code).json(json) for the request req.
Respond(req, code, json) ==
  httpResponses' = Append(httpResponses,
                          [req |-> req, code |-> code, json |-> json])

\* A tail of handleCreateRepo that answers 201 whatever the replication result.
afterReplicationAlwaysCreated(repos, repoId, replicated, replicationResult) ==
  [storage |-> repos, code |-> 201,
   json |-> [repo_id |-> repoId, created |-> TRUE,
             replicated |-> replicated,
             peers_confirmed |->
               IF replicated THEN replicationResult.peersConfirmed ELSE 0]]

\* A tail of handleCreateRepo that removes the local repository when the
\* replication fails.
afterReplicationRollsBack(repos, repoId, replicated, replicationResult) ==
  IF replicated /\ ~replicationResult.success
  THEN [storage |-> repos \ {repoId}, code |-> 500,
        json |-> [error |-> "Replication failed",
                  details |-> replicationResult.error]]
  ELSE [storage |-> repos, code |-> 201,
        json |-> [repo_id |-> repoId, created |-> TRUE,
                  replicated |-> replicated,
                  peers_confirmed |->
                    IF replicated THEN replicationResult.peersConfirmed
                    ELSE 0]]

\* handleCreateRepo after the replication (replicated is
\* replicationResult !== null): 500 on a failed replication, with no storage
\* call, else 201; x || 0 is x for a number.
afterReplication(repos, repoId, replicated, replicationResult) ==
  IF replicated /\ ~replicationResult.success
  THEN [storage |-> repos, code |-> 500,
        json |-> [error |-> "Replication failed",
                  details |-> replicationResult.error]]
  ELSE [storage |-> repos, code |-> 201,
        json |-> [repo_id |-> repoId, created |-> TRUE,
                  replicated |-> replicated,
                  peers_confirmed |->
                    IF replicated THEN replicationResult.peersConfirmed
                    ELSE 0]]

InitServer == \E n \in 0..MaxServerPeers : Constructed(n)

\* The coordinator and the peers are not involved.
NoReplication ==
  UNCHANGED <<peerUrls, pc, uuids, transactionId, quorumSize, writeData,
              prepareResults, commitResults, requests, transactions, storage,
              result, sent>>

\* handleCreateRepo up to its answer or, with a coordinator, up to the await
\* of replicateWrite.  localFails: the local createRepo throws.
HandleCreateRepo(req, localFails) ==
  /\ Len(httpResponses) < MaxClientRequests
  /\ IF Falsy(req.repo_id)
     THEN /\ Respond(req, 400, [error |-> "Missing repo_id"])
          /\ NoReplication /\ UNCHANGED <<localStorage, serverPc>>
     ELSE IF repoExists(localStorage, req.repo_id)
     THEN /\ Respond(req, 409, [error |-> "Repository already exists"])
          /\ NoReplication /\ UNCHANGED <<localStorage, serverPc>>
     ELSE LET c == createRepo(localStorage, req.repo_id, localFails)
          IN  IF c.threw
              THEN /\ Respond(req, 500,
                              [error |-> "Failed to create repository"])
                   /\ NoReplication /\ UNCHANGED <<localStorage, serverPc>>
              ELSE IF ~hasCoordinator
              THEN LET a == afterReplication(c.storage, req.repo_id, FALSE,
                                             NoResult)
                   IN  /\ Respond(req, a.code, a.json)
                       /\ localStorage' = a.storage
                       /\ NoReplication /\ UNCHANGED serverPc
              ELSE /\ ReplicateWriteCall(CreateData(req.repo_id))
                   /\ localStorage' = c.storage
                   /\ serverPc' = "replicating"
                   /\ UNCHANGED httpResponses
  /\ UNCHANGED <<handlerVars, concurrencyVars>>

\* replicateWrite has returned: the rest of handleCreateRepo.
AnswerCreateRepo ==
  /\ serverPc = "replicating"
  /\ pc = "done"
  /\ LET a == afterReplication(localStorage, writeData.repo_id, TRUE, result)
     IN  /\ Respond([repo_id |-> writeData.repo_id], a.code, a.json)
         /\ localStorage' = a.storage
  /\ serverPc' = "ready"
  /\ NoReplication /\ UNCHANGED <<handlerVars, concurrencyVars>>

NextServer ==
  \/ \E req \in CreateRequests : \E f \in BOOLEAN : HandleCreateRepo(req, f)
  \/ AnswerCreateRepo
  \/ \E p \in Peers : \E f \in BOOLEAN : PeerPrepare(p, f)
  \/ \E p \in Peers : PrepareTimeout(p)
  \/ QuorumCheck
  \/ \E p \in Peers : PeerCommit(p)
  \/ \E p \in Peers : CommitTimeout(p)
  \/ ReturnSuccess

SpecServer == InitServer /\ [][NextServer]_vars

----------------------------------------------------------------------------
\* A deployment of one node: a ReplicationCoordinator and a GitServer, each
\* constructed with an empty peer list.

InitSingle == Constructed(0)

NextSingle ==
  \/ ReplicateWrite
  \/ QuorumCheck
  \/ ReturnSuccess
  \/ \E req \in CreateRequests : \E f \in BOOLEAN : HandleCreateRepo(req, f)

SpecSingle == InitSingle /\ [][NextSingle]_vars

----------------------------------------------------------------------------
\* Helpers of the properties below.

\* Cluster size N = 1 + number of configured peers.
ClusterSize == 1 + Len(peerUrls)

\* Number of posts of one kind the coordinator has made to peer p.
CountPosts(kind, p) ==
  Cardinality({ i \in DOMAIN sent : sent[i].kind = kind /\ sent[i].peer = p })

\* The nodes whose table holds the call's transaction in one of the statuses.
HoldersIn(statuses) ==
  { p \in Peers : /\ MapHas(transactions[p], transactionId)
                  /\ transactions[p][transactionId].status \in statuses }

\* The quorum table as written in the specification's testable properties.
StatedTable == <<0, 1, 1, 1, 2, 2, 2>>

\* The same table with the entry for seven servers as the formula gives it.
FormulaTable == <<0, 1, 1, 1, 2, 2, 3>>

\* The stated formula, with the ceiling taken by integer arithmetic.
StatedFormula(n) == IF n = 2 THEN 1 ELSE ((n + 1) \div 2) - 1

\* C1 as stated: for N in 1..7 getQuorumSize returns the stated table
\* (N=7 -> 2) and the table equals the formula.
C1_StatedTable ==
  ClusterSize \in 1..7 =>
    /\ getQuorumSize(peerUrls) = StatedTable[ClusterSize]
    /\ (pc # "idle" => quorumSize = StatedTable[ClusterSize])
    /\ StatedTable[ClusterSize] = StatedFormula(ClusterSize)

\* C1 amended: for N in 1..7 getQuorumSize returns 0, 1, 1, 1, 2, 2, 3 (three
\* peers for seven servers), and that table equals the stated formula.
C1_QuorumTable ==
  ClusterSize \in 1..7 =>
    /\ getQuorumSize(peerUrls) = FormulaTable[ClusterSize]
    /\ (pc # "idle" => quorumSize = FormulaTable[ClusterSize])
    /\ FormulaTable[ClusterSize] = StatedFormula(ClusterSize)

C1_Witness == ClusterSize = 7 /\ pc = "done" /\ result.peersRequired = 3

\* C2: for N >= 3 the coordinator plus the required peers is a strict majority
\* of N, and with 6 servers of which 3 are down a write fails.
C2_StrictMajority ==
  /\ (ClusterSize >= 3 /\ pc # "idle") =>
       1 + quorumSize >= (ClusterSize \div 2) + 1
  /\ (ClusterSize = 6 /\ pc = "done" /\ Cardinality(successfulPrepares) <= 2) =>
       ~result.success

\* C3 as stated: when replicateWrite has returned success, at least
\* peersRequired peers hold the transaction with status committed.
C3_QuorumCommitted ==
  (pc = "done" /\ result.success) =>
    Cardinality(HoldersIn({"committed"})) >= result.peersRequired

\* C3 amended: when replicateWrite has returned success, at least peersRequired
\* peers hold a record of the transaction that is prepared or committed, and a
\* commit was sent to each peer whose prepare succeeded.
C3_QuorumStaged ==
  (pc = "done" /\ result.success) =>
    /\ Cardinality(HoldersIn({"prepared", "committed"})) >= result.peersRequired
    /\ successfulPrepares \subseteq HoldersIn({"prepared", "committed"})
    /\ \A p \in successfulPrepares : CountPosts("commit", p) = 1

C3_Witness ==
  /\ pc = "done" /\ result.success /\ result.peersRequired = 2
  /\ Cardinality(HoldersIn({"committed"})) < 2
  /\ Cardinality(HoldersIn({"prepared"})) >= 1

\* C4: replicateWrite returns success exactly when the number of successful
\* prepares is at least the quorum; the failure result carries both counts in
\* its fields and in its message.
C4_SuccessIffQuorum ==
  pc = "done" =>
    LET got == Cardinality(successfulPrepares)
        required == getQuorumSize(peerUrls)
    IN  /\ result.success <=> (got >= required)
        /\ ~result.success =>
             /\ result.peersConfirmed = got
             /\ result.peersRequired = required
             /\ Len(result.error) = 4
             /\ result.error[2] = required
             /\ result.error[4] = got
        /\ (ClusterSize = 2 /\ got = 0) =>
             /\ ~result.success
             /\ result.peersConfirmed = 0
             /\ result.peersRequired = 1

C4_Witness ==
  /\ pc = "done" /\ ~result.success
  /\ quorumSize = 2 /\ Cardinality(successfulPrepares) = 1
  /\ result.error = QuorumError(2, 1)

\* C5: when the quorum is missed, an abort has been sent to every peer whose
\* prepare succeeded by the time the failure result is returned.
C5_AbortOnFailure ==
  (pc = "done" /\ ~result.success) =>
    \A p \in successfulPrepares : CountPosts("abort", p) >= 1

\* C6: a commit goes to exactly the peers whose prepare succeeded, once each,
\* and only in a call that reached the quorum.
C6_CommitExactlyPrepared ==
  \A p \in Peers :
    CountPosts("commit", p) =
      IF /\ pc = "commit" \/ (pc = "done" /\ result.success)
         /\ prepareResults[p] = "fulfilled"
      THEN 1 ELSE 0

C6_Witness ==
  /\ pc = "done" /\ result.success
  /\ \E p \in Peers : prepareResults[p] = "rejected" /\ CountPosts("commit", p) = 0
  /\ \E p \in Peers : prepareResults[p] = "fulfilled" /\ CountPosts("commit", p) = 1

\* C7: when every prepare succeeds, the call returns success with
\* peersConfirmed = number of peers, one commit per peer, 2 x peers posts.
C7_AllPrepared ==
  (pc = "done" /\ \A p \in Peers : prepareResults[p] = "fulfilled") =>
    /\ result.success
    /\ result.peersConfirmed = Len(peerUrls)
    /\ \A p \in Peers : CountPosts("commit", p) = 1 /\ CountPosts("prepare", p) = 1
    /\ Len(sent) = 2 * Len(peerUrls)

C7_Witness ==
  /\ pc = "done" /\ Len(peerUrls) = 3
  /\ \A p \in Peers : prepareResults[p] = "fulfilled"
  /\ result.peersConfirmed = 3

\* C8: a step that posts a commit or an abort starts from a state in which no
\* prepare of the call is still pending.
C8_Barrier ==
  [][ \A i \in (Len(sent) + 1)..Len(sent') :
        sent'[i].kind # "prepare" =>
          \A p \in DOMAIN prepareResults : prepareResults[p] # "pending" ]_vars

C8_Witness ==
  /\ \E i \in DOMAIN sent : sent[i].kind = "commit"
  /\ \E p \in Peers : prepareResults[p] = "rejected"

\* C9: once the prepare quorum is reached the result is success with the
\* prepare-phase counts whatever the commits did, and no commit is repeated.
C9_CommitOutcomeIgnored ==
  /\ \A p \in Peers : CountPosts("commit", p) <= 1
  /\ (pc = "done" /\ Cardinality(successfulPrepares) >= quorumSize) =>
       result = [success |-> TRUE,
                 peersConfirmed |-> Cardinality(successfulPrepares),
                 peersRequired |-> getQuorumSize(peerUrls),
                 error |-> <<>>]

C9_Witness ==
  /\ pc = "done" /\ result.success
  /\ \E p \in DOMAIN commitResults : commitResults[p] = "rejected"
  /\ \E p \in DOMAIN commitResults : commitResults[p] = "fulfilled"

\* C10: replicateWrite never throws; a failed peer call is a rejected entry of
\* the results and the call ends with a ReplicationResult.
C10_NeverRaises ==
  /\ pc \in {"idle", "prepare", "commit", "done"}
  /\ \A p \in DOMAIN prepareResults :
       prepareResults[p] \in {"pending", "fulfilled", "rejected"}
  /\ \A p \in DOMAIN commitResults :
       commitResults[p] \in {"pending", "fulfilled", "rejected"}
  /\ pc = "done" =>
       /\ result.success \in BOOLEAN
       /\ result.peersConfirmed \in 0..Len(peerUrls)
       /\ result.peersRequired \in 0..Len(peerUrls)
       /\ result # NoResult

C10_Witness ==
  /\ pc = "done"
  /\ \E p \in Peers : prepareResults[p] = "rejected"
  /\ \E p \in DOMAIN commitResults : commitResults[p] = "rejected"

\* The call's prepare post to peer p, as it travels.
PrepareRequest(p) == Post("prepare", p, PrepareBody(transactionId, writeData))

\* C22: in every result peersConfirmed is the number of peers whose prepare
\* succeeded (between 0 and the number of peers), peersRequired is the quorum
\* of the cluster, success is peersConfirmed >= peersRequired, and error is
\* present exactly when success is false.
C22_ResultFields ==
  pc = "done" =>
    /\ result.peersConfirmed =
         Cardinality({ p \in Peers : prepareResults[p] = "fulfilled" })
    /\ result.peersConfirmed \in 0..Len(peerUrls)
    /\ result.peersRequired = StatedFormula(ClusterSize)
    /\ result.success = (result.peersConfirmed >= result.peersRequired)
    /\ (result.error # <<>>) = ~result.success

C22_Witness ==
  /\ pc = "done" /\ Len(peerUrls) = 5
  /\ Cardinality({ p \in Peers : prepareResults[p] = "fulfilled" }) = 3
  /\ result.success /\ result.error = <<>>
  /\ result.peersConfirmed = 3 /\ result.peersRequired = 2

\* C23: once the call has started, every configured peer has been posted
\* exactly one prepare, whatever the other peers did since, and the post to a
\* peer that has not answered is still under way.
C23_OnePrepareEach ==
  pc # "idle" =>
    \A p \in Peers :
      /\ CountPosts("prepare", p) = 1
      /\ (pc = "prepare" /\ prepareResults[p] = "pending") =>
           PrepareRequest(p) \in requests

C23_Witness ==
  /\ pc = "prepare"
  /\ \E p, q, r \in Peers :
       /\ prepareResults[p] = "rejected" /\ PrepareRequest(p) \in requests
       /\ prepareResults[q] = "pending" /\ PrepareRequest(q) \in requests
       /\ prepareResults[r] = "fulfilled"
       /\ CountPosts("prepare", p) = 1 /\ CountPosts("prepare", q) = 1
       /\ CountPosts("prepare", r) = 1

\* C25: a commit under way to a node finds the record of its transaction in
\* that node's table: the node acknowledged the prepare before the commit was
\* sent, so the commit is never answered 404.
C25_CommitAfterPrepare ==
  \A r \in requests :
    r.kind = "commit" =>
      /\ MapHas(transactions[r.peer], r.body.transaction_id)
      /\ prepareResults[r.peer] = "fulfilled"
      /\ handleCommit(PeerServerId(r.peer), transactions[r.peer],
                      storage[r.peer], r.body).code = 200

C25_Witness ==
  \E r \in requests :
    /\ r.kind = "commit"
    /\ transactions[r.peer][r.body.transaction_id].status = "prepared"
    /\ \E q \in Peers : prepareResults[q] = "rejected"

----------------------------------------------------------------------------
\* Helpers of the handler properties.

\* The table and the storage of the handler under test.
Table == transactions[HandlerNode]
Repos == storage[HandlerNode]

\* The step serves a request of kind op.
Serves(op) == served' = served + 1 /\ reply'.op = op

\* The request just served had all the fields its handler requires.
ValidRequest ==
  /\ reply'.body.transaction_id # MissingId
  /\ reply'.body.coordinator_id # Missing
  /\ reply'.op = "prepare" => reply'.body.repo_id # Missing

\* The id of the request just served.
ServedId == reply'.body.transaction_id

\* The effects of an accepted prepare.
PrepareApplied ==
  /\ reply'.code = 200
  /\ reply'.json = [status |-> "prepared", transaction_id |-> ServedId,
                    server_id |-> PeerServerId(HandlerNode)]
  /\ MapHas(Table', ServedId)
  /\ Table'[ServedId].status = "prepared"
  /\ Table'[ServedId].repo_id = reply'.body.repo_id
  /\ \A id \in DOMAIN Table : id # ServedId => Table'[id] = Table[id]
  /\ DOMAIN Table' = DOMAIN Table \cup {ServedId}
  /\ Repos' = IF reply'.body.operation = "create"
              THEN Repos \cup {reply'.body.repo_id} ELSE Repos
  /\ reply'.createRepoCalled =
       (reply'.body.operation = "create" /\ reply'.body.repo_id \notin Repos)

\* C11: a record that is committed or aborted never becomes prepared again,
\* whatever requests the node serves.
C11_NeverReverts ==
  [][ \A id \in DOMAIN Table :
        Table[id].status \in {"committed", "aborted"} =>
          Table'[id].status # "prepared" ]_vars

\* C12: commit or abort on a record in a terminal status leaves the status as
\* it is and answers with that status.
C12_TerminalIdempotent ==
  [][ ( /\ Serves("commit") \/ Serves("abort")
        /\ ValidRequest
        /\ MapHas(Table, ServedId)
        /\ Table[ServedId].status \in {"committed", "aborted"} ) =>
      ( /\ Table'[ServedId].status = Table[ServedId].status
        /\ reply'.code = 200
        /\ reply'.json.status = Table[ServedId].status ) ]_vars

\* C13 as stated: every valid prepare applies the storage mutation, inserts the
\* record as prepared and answers 200 with status, transaction_id, server_id.
C13_ValidPrepareAccepted ==
  [][ (Serves("prepare") /\ ValidRequest) => PrepareApplied ]_vars

\* C13 amended: a valid prepare does all that unless createRepo throws; then it
\* answers 500 and leaves the transaction table as it was.
C13_ValidPrepare ==
  [][ (Serves("prepare") /\ ValidRequest) =>
        \/ PrepareApplied
        \/ /\ reply'.code = 500
           /\ reply'.createRepoCalled
           /\ reply'.body.operation = "create"
           /\ reply'.body.repo_id \notin Repos
           /\ Table' = Table ]_vars

C13_Witness ==
  /\ reply.op = "prepare" /\ reply.code = 200 /\ reply.createRepoCalled
  /\ reply.json = [status |-> "prepared",
                   transaction_id |-> reply.body.transaction_id,
                   server_id |-> PeerServerId(HandlerNode)]
  /\ Table[reply.body.transaction_id].status = "prepared"
  /\ reply.body.repo_id \in Repos

\* C14: commit on an id with a record sets it committed and answers 200
\* 'committed'; commit on an id never seen answers 404 and leaves the table.
C14_Commit ==
  [][ (Serves("commit") /\ ValidRequest) =>
        IF MapHas(Table, ServedId)
        THEN /\ Table' = [Table EXCEPT ![ServedId].status = "committed"]
             /\ reply'.code = 200
             /\ reply'.json = [status |-> "committed",
                               transaction_id |-> ServedId,
                               server_id |-> PeerServerId(HandlerNode)]
        ELSE /\ reply'.code = 404
             /\ Table' = Table ]_vars

C14_Witness ==
  /\ reply.op = "commit" /\ reply.code = 404 /\ reply.body.transaction_id = 2
  /\ DOMAIN Table = {1} /\ Table[1].status = "committed"

\* C15: abort on a prepared record sets it aborted; abort on an id never seen
\* creates no record; both answer 200 'aborted'.
C15_Abort ==
  [][ (Serves("abort") /\ ValidRequest) =>
        /\ reply'.code = 200
        /\ reply'.json = [status |-> "aborted", transaction_id |-> ServedId,
                          server_id |-> PeerServerId(HandlerNode)]
        /\ IF MapHas(Table, ServedId)
           THEN Table' = [Table EXCEPT ![ServedId].status = "aborted"]
           ELSE Table' = Table ]_vars

C15_Witness ==
  /\ reply.op = "abort" /\ reply.code = 200 /\ reply.body.transaction_id = 2
  /\ DOMAIN Table = {1} /\ Table[1].status = "aborted"

\* C16: a request with a required field missing answers 400 and changes
\* neither the table nor the storage, and createRepo is not called.
C16_Validation ==
  [][ ( /\ Serves("prepare") \/ Serves("commit") \/ Serves("abort")
        /\ ~ValidRequest ) =>
      ( /\ reply'.code = 400
        /\ Table' = Table
        /\ Repos' = Repos
        /\ ~reply'.createRepoCalled ) ]_vars

C16_Witness ==
  /\ reply.op = "prepare" /\ reply.code = 400
  /\ reply.body.transaction_id = 2 /\ reply.body.coordinator_id = ServerId
  /\ reply.body.repo_id = Missing /\ reply.body.operation = "create"
  /\ DOMAIN Table = {1} /\ Repos = {"alice/proj"}

\* C17: a prepare that repeats the id and the payload of a record the node
\* holds is accepted, adds no record and does not call createRepo.
C17_PrepareIdempotent ==
  [][ ( /\ Serves("prepare")
        /\ ValidRequest
        /\ MapHas(Table, ServedId)
        /\ Table[ServedId].repo_id = reply'.body.repo_id
        /\ Table[ServedId].operation = reply'.body.operation
        /\ Table[ServedId].coordinator_id = reply'.body.coordinator_id ) =>
      ( /\ reply'.code = 200
        /\ DOMAIN Table' = DOMAIN Table
        /\ ~reply'.createRepoCalled
        /\ Repos' = Repos ) ]_vars

C17_Witness ==
  /\ served = 2
  /\ reply.op = "prepare" /\ reply.code = 200 /\ ~reply.createRepoCalled
  /\ reply.body.operation = "create"
  /\ DOMAIN Table = {reply.body.transaction_id}
  /\ Table[reply.body.transaction_id].status = "prepared"
  /\ Repos = {reply.body.repo_id}

\* C26: commit and abort leave the node's storage as it is; the repository
\* made at prepare time is still there after the abort.
C26_PhaseTwoKeepsStorage ==
  [][ (Serves("commit") \/ Serves("abort")) => Repos' = Repos ]_vars

C26_Witness ==
  /\ reply.op = "abort" /\ reply.code = 200
  /\ MapHas(Table, reply.body.transaction_id)
  /\ Table[reply.body.transaction_id].status = "aborted"
  /\ Table[reply.body.transaction_id].operation = "create"
  /\ repoExists(Repos, Table[reply.body.transaction_id].repo_id)

\* Helpers of the replication and server properties.

\* The repository of the write at hand.
WrittenRepo == writeData.repo_id

\* The step in which handleCreateRepo answers after the replication.
AnswersReplicated ==
  /\ serverPc = "replicating" /\ serverPc' = "ready"
  /\ Len(httpResponses') = Len(httpResponses) + 1

LastResponse == httpResponses'[Len(httpResponses')]

\* The i-th answer reports a failed replication.
ReplicationFailedAt(i) ==
  /\ httpResponses[i].code = 500
  /\ httpResponses[i].json.error = "Replication failed"

\* C18: when replicateWrite has returned success for a create, the repository
\* exists in the storage of every peer counted in peersConfirmed, and these are
\* at least peersRequired peers; with a single peer the count is 1 and the
\* repository exists on that peer.
C18_RepoOnConfirmedPeers ==
  (pc = "done" /\ result.success) =>
    /\ \A p \in successfulPrepares : repoExists(storage[p], WrittenRepo)
    /\ result.peersConfirmed = Cardinality(successfulPrepares)
    /\ Cardinality({ p \in Peers : repoExists(storage[p], WrittenRepo) })
         >= result.peersRequired
    /\ ClusterSize = 2 =>
         result.peersConfirmed = 1 /\ repoExists(storage[1], WrittenRepo)

C18_Witness ==
  /\ pc = "done" /\ result.success
  /\ ClusterSize = 2
  /\ result.peersConfirmed = 1
  /\ repoExists(storage[1], WrittenRepo)

\* C19: handleCreateRepo answers 500 when replicateWrite returned
\* success = false, and 201 with peers_confirmed equal to the result's
\* peersConfirmed when it returned success = true.
C19_ResultToStatus ==
  [][ AnswersReplicated =>
        IF result.success
        THEN /\ LastResponse.code = 201
             /\ LastResponse.json.peers_confirmed = result.peersConfirmed
        ELSE LastResponse.code = 500 ]_vars

C19_Witness ==
  /\ httpResponses # <<>>
  /\ pc = "done" /\ result.success /\ result.peersConfirmed >= 2
  /\ \E i \in DOMAIN httpResponses :
       /\ httpResponses[i].code = 201
       /\ httpResponses[i].json.replicated
       /\ httpResponses[i].json.peers_confirmed = result.peersConfirmed

BothStarted == pc # "idle" /\ other.pc # "idle"

\* The posts the log holds for the transaction id txid.
PostsOf(kind, txid) ==
  { i \in DOMAIN sent : sent[i].kind = kind /\ sent[i].body.transaction_id = txid }

\* The number of posts a call in the state c has made: one prepare per peer
\* and, past the quorum check, one commit per acknowledged prepare.
PostsDue(c) ==
  (IF c.pc = "idle" THEN 0 ELSE Len(peerUrls))
  + (IF c.pc = "commit" \/ (c.pc = "done" /\ c.result.success)
     THEN Cardinality({ p \in DOMAIN c.prepareResults :
                          c.prepareResults[p] = "fulfilled" })
     ELSE 0)

\* C21: two concurrent calls for the same repository use different transaction
\* ids, and a peer that holds the repository accepts the prepare of either call
\* whatever records it holds for the other: nothing excludes the second call.
C21_NoMutualExclusion ==
  [][ /\ BothStarted => transactionId # other.transactionId
      /\ \A r \in requests \ requests' :
           ( /\ r.kind = "prepare"
             /\ repoExists(storage[r.peer], r.body.repo_id) ) =>
             /\ MapHas(transactions'[r.peer], r.body.transaction_id)
             /\ transactions'[r.peer][r.body.transaction_id].status = "prepared"
    ]_vars

C21_Witness ==
  /\ pc = "done" /\ result.success
  /\ other.pc = "done" /\ other.result.success
  /\ writeData.repo_id = other.writeData.repo_id
  /\ transactionId # other.transactionId
  /\ \E p \in Peers :
       /\ MapHas(transactions[p], transactionId)
       /\ MapHas(transactions[p], other.transactionId)
       /\ transactions[p][transactionId].status = "prepared"
       /\ transactions[p][other.transactionId].status = "prepared"

getTransactionCount(txs) == Cardinality(DOMAIN txs)

\* The record of id is not after the step what it was before.
RecordChanges(id) ==
  \/ ~MapHas(Table, id)
  \/ ~MapHas(Table', id)
  \/ Table'[id] # Table[id]

\* C27: a prepare, commit or abort for one transaction id leaves the record of
\* every other id as it is, however the requests interleave, and the status an
\* accepted request sets is the status its record has when it is answered.
C27_OtherIdsUntouched ==
  [][ ~Serves("clear") =>
        /\ \A id \in DOMAIN Table \cup DOMAIN Table' :
             RecordChanges(id) =>
               served' = served + 1 /\ reply'.body.transaction_id = id
        /\ (Serves("prepare") /\ reply'.code = 200) =>
             Table'[ServedId].status = "prepared"
        /\ (Serves("commit") /\ reply'.code = 200) =>
             Table'[ServedId].status = "committed"
        /\ (Serves("abort") /\ reply'.code = 200 /\ MapHas(Table, ServedId)) =>
             Table'[ServedId].status = "aborted" ]_vars

C27_Witness ==
  /\ reply.op = "commit" /\ reply.code = 200
  /\ reply.body.transaction_id = 1 /\ reply.body.coordinator_id = ServerId
  /\ Table[1].status = "committed"
  /\ MapHas(Table, 2) /\ Table[2].status = "prepared"
  /\ Table[2].coordinator_id = OtherCoordinatorId
  /\ \E i \in DOMAIN suspended : suspended[i].body.transaction_id = 2

\* C28: no prepare, commit or abort removes a record: the ids of the table
\* only grow and getTransactionCount never decreases; a step that removes a
\* record is a call of clearTransactions.
C28_RecordsKept ==
  [][ \/ /\ DOMAIN Table \subseteq DOMAIN Table'
         /\ getTransactionCount(Table') >= getTransactionCount(Table)
      \/ /\ Serves("clear")
         /\ Table' = EmptyMap ]_vars

C28_Witness ==
  /\ getTransactionCount(Table) = 2
  /\ reply.op = "abort" /\ reply.code = 200
  /\ Table[reply.body.transaction_id].status = "aborted"
  /\ \E id \in DOMAIN Table : Table[id].status = "prepared"

\* C24: a replicateWrite call that has started returns a result, whatever the
\* peers do, as every post is answered or times out.
C24_Returns == (pc \in {"prepare", "commit"}) ~> (pc = "done" /\ result # NoResult)

C24_Witness ==
  /\ pc = "done" /\ result.success
  /\ \E p \in Peers :
       /\ prepareResults[p] = "rejected"
       /\ PrepareRequest(p) \in requests
  /\ \E p \in DOMAIN commitResults :
       /\ commitResults[p] = "rejected"
       /\ Post("commit", p, CommitBody(transactionId)) \in requests

\* C29: with no peers the quorum is 0; replicateWrite posts nothing and
\* returns success with peersConfirmed = 0 and peersRequired = 0; GitServer
\* has no coordinator and answers 201 with replicated = false and
\* peers_confirmed = 0.
C29_NoPeers ==
  Len(peerUrls) = 0 =>
    /\ getQuorumSize(peerUrls) = 0
    /\ sent = <<>> /\ requests = {}
    /\ pc \in {"commit", "done"} => quorumSize = 0
    /\ pc = "done" =>
         result = [success |-> TRUE, peersConfirmed |-> 0,
                   peersRequired |-> 0, error |-> <<>>]
    /\ serverPc = "ready"
    /\ \A i \in DOMAIN httpResponses :
         httpResponses[i].code \in {201, 400, 409, 500}
    /\ \A i \in DOMAIN httpResponses :
         httpResponses[i].code = 201 =>
           httpResponses[i].json =
             [repo_id |-> httpResponses[i].req.repo_id, created |-> TRUE,
              replicated |-> FALSE, peers_confirmed |-> 0]

C29_Witness ==
  /\ Len(peerUrls) = 0
  /\ pc = "done" /\ result.success
  /\ result.peersConfirmed = 0 /\ result.peersRequired = 0
  /\ sent = <<>>
  /\ \E i \in DOMAIN httpResponses :
       /\ httpResponses[i].code = 201
       /\ ~httpResponses[i].json.replicated
       /\ httpResponses[i].json.peers_confirmed = 0

\* Helpers of the properties of GitServer's refusals.

\* The step in which handleCreateRepo answers a request at once.
AnswersAtOnce ==
  /\ Len(httpResponses') = Len(httpResponses) + 1
  /\ ~AnswersReplicated

\* C31: a request for a repository the local storage holds is answered 409 and
\* a request without repo_id 400; neither posts a prepare nor changes the local
\* storage.
C31_RefusedCreate ==
  [][ AnswersAtOnce =>
        /\ LastResponse.req.repo_id = Missing => LastResponse.code = 400
        /\ LastResponse.req.repo_id \in localStorage => LastResponse.code = 409
        /\ LastResponse.code \in {400, 409} =>
             /\ localStorage' = localStorage
             /\ sent' = sent /\ requests' = requests
             /\ pc' = pc /\ uuids' = uuids ]_vars

C31_Witness ==
  /\ \E i \in DOMAIN httpResponses :
       /\ httpResponses[i].code = 409
       /\ httpResponses[i].req.repo_id \in localStorage
  /\ \E i \in DOMAIN httpResponses :
       /\ httpResponses[i].code = 400
       /\ httpResponses[i].req.repo_id = Missing
  /\ sent = <<>>

\* C32: when the storage operation of a valid prepare fails, the handler
\* answers 500 'Prepare failed' and stores no record, and the coordinator has
\* that peer's prepare as failed.
C32_StorageFailure ==
  [][ /\ \A r \in requests :
           (r.kind = "prepare" /\ r.body.repo_id \notin storage[r.peer]) =>
             LET h == handlePrepare(PeerServerId(r.peer), transactions[r.peer],
                                    storage[r.peer], r.body, TRUE)
             IN  /\ h.code = 500 /\ h.json = [error |-> "Prepare failed"]
                 /\ h.transactions = transactions[r.peer]
      /\ \A r \in requests \ requests' :
           (r.kind = "prepare" /\ r.body.repo_id \notin storage'[r.peer]) =>
             /\ ~MapHas(transactions'[r.peer], r.body.transaction_id)
             /\ prepareResults'[r.peer] = "rejected" ]_vars

C32_Witness ==
  /\ pc = "done"
  /\ \E p \in Peers :
       /\ PrepareRequest(p) \notin requests
       /\ WrittenRepo \notin storage[p]
       /\ ~MapHas(transactions[p], transactionId)
       /\ prepareResults[p] = "rejected"
       /\ p \notin successfulPrepares

\* C33: a peer holds the call's transaction committed only if the prepares
\* reached the quorum; after a failure result no peer holds it committed; no
\* peer is sent both a commit and an abort.
C33_Agreement ==
  /\ \A p \in HoldersIn({"committed"}) :
       /\ Cardinality({ q \in Peers : prepareResults[q] = "fulfilled" })
            >= StatedFormula(ClusterSize)
       /\ pc \in {"commit", "done"}
       /\ prepareResults[p] = "fulfilled"
  /\ (pc = "done" /\ ~result.success) => HoldersIn({"committed"}) = {}
  /\ \A p \in Peers :
       ~(CountPosts("commit", p) > 0 /\ CountPosts("abort", p) > 0)

C33_Witness ==
  /\ pc = "done" /\ result.success
  /\ HoldersIn({"committed"}) # {}
  /\ \E p \in Peers : prepareResults[p] = "rejected"
  /\ Cardinality(HoldersIn({"committed"})) >= StatedFormula(ClusterSize)

\* C34: a node that has acknowledged an abort for a transaction id, or holds
\* the id aborted, does not hold it prepared or committed after any later step.
C34_AbortWins ==
  [][ \A id \in HandlerTxIds :
        ( \/ /\ reply.op = "abort" /\ reply.code = 200
             /\ reply.body.transaction_id = id
          \/ /\ MapHas(Table, id)
             /\ Table[id].status = "aborted" ) =>
        ~( /\ MapHas(Table', id)
           /\ Table'[id].status \in {"prepared", "committed"} ) ]_vars

\* C35: every one of the concurrent prepares for the same repository is
\* accepted and recorded as prepared, however their awaits interleave.
C35_ConcurrentCreatesAccepted ==
  [][ Serves("prepare") =>
        /\ reply'.code = 200
        /\ MapHas(Table', ServedId)
        /\ Table'[ServedId].status = "prepared" ]_vars

\* C36: once replicateWrite has returned, every record its prepares created
\* eventually is committed or aborted; none stays prepared for ever.
C36_EventuallyTerminal ==
  (pc = "done") ~> (HoldersIn({"prepared"}) = {})

\* C37: when the result has success = false, no peer's storage holds the
\* repository of the call and no peer holds its record in status prepared.
C37_AtomicOnFailure ==
  (pc = "done" /\ ~result.success) =>
    \A p \in Peers : /\ WrittenRepo \notin storage[p]
                     /\ p \notin HoldersIn({"prepared"})

PeerDown ==
  /\ Len(peerUrls) = 1
  /\ 1 \in DOMAIN prepareResults
  /\ prepareResults[1] = "rejected"

=============================================================================
